---- MODULE Spec2Model ----
(***************************************************************************)
(* Model of scripts/merge_and_filter_epg.py: one run of main(), which      *)
(* fetches every configured XMLTV source, merges channels and programmes   *)
(* into tv_root with first-seen-wins deduplication and a retention window, *)
(* and then either writes the merged document or falls back to the         *)
(* previous artifact.                                                      *)
(* A second specification, ParserSpec, runs parse_xmltv_time alone, call   *)
(* by call, over a pool of strings.                                        *)
(*                                                                         *)
(* Strings whose characters the code inspects (timestamps, titles) are     *)
(* sequences of one-character strings.  An instant is a record             *)
(* [day, sec, us]: proleptic Gregorian ordinal, second of the day and      *)
(* sub-second part, all in UTC.                                            *)
(***************************************************************************)
EXTENDS Integers, Sequences, FiniteSets, TLC

(* ------------------------------ bounds --------------------------------- *)

\* number of configured sources (len(URLS) is 26 in the repository)
NumSources == 2

\* most channel and programme elements the sources of one run carry together
MaxElements == 2

(* ------------------------- program constants --------------------------- *)

KEEP_PAST_DAYS == 2

KEEP_FUTURE_DAYS == 7

\* fetch_xml(url, retries=3)
Retries == 3

(* --------------------------- character data ---------------------------- *)

Digit == {"0", "1", "2", "3", "4", "5", "6", "7", "8", "9"}

\* characters matched by \s
Whitespace == {" ", "\t", "\n"}

DigitVal == ("0" :> 0) @@ ("1" :> 1) @@ ("2" :> 2) @@ ("3" :> 3) @@ ("4" :> 4)
            @@ ("5" :> 5) @@ ("6" :> 6) @@ ("7" :> 7) @@ ("8" :> 8) @@ ("9" :> 9)

\* int() of a string of digits
RECURSIVE ToInt(_)
ToInt(s) ==
    IF s = << >> THEN 0
    ELSE 10 * ToInt(SubSeq(s, 1, Len(s) - 1)) + DigitVal[s[Len(s)]]

AllDigits(s) == \A i \in 1..Len(s) : s[i] \in Digit

\* str.strip(): drop leading and trailing whitespace
RECURSIVE LStrip(_)
LStrip(s) ==
    IF s # << >> /\ s[1] \in Whitespace THEN LStrip(Tail(s)) ELSE s

RECURSIVE RStrip(_)
RStrip(s) ==
    IF s # << >> /\ s[Len(s)] \in Whitespace
    THEN RStrip(SubSeq(s, 1, Len(s) - 1))
    ELSE s

Strip(s) == RStrip(LStrip(s))

(* ------------------------------ datetime ------------------------------- *)

None == [kind |-> "none", day |-> 0, sec |-> 0, us |-> 0]

\* an exception leaves the function instead of a value
Raised == [kind |-> "raise", day |-> 0, sec |-> 0, us |-> 0]

Instant(d, s, u) == [kind |-> "dt", day |-> d, sec |-> s, us |-> u]

IsLeap(y) == (y % 4 = 0) /\ ((y % 100 # 0) \/ (y % 400 = 0))

DaysInMonth(y, m) ==
    IF m = 2 THEN (IF IsLeap(y) THEN 29 ELSE 28)
    ELSE IF m \in {4, 6, 9, 11} THEN 30 ELSE 31

RECURSIVE DaysBeforeMonth(_, _)
DaysBeforeMonth(y, m) ==
    IF m = 1 THEN 0 ELSE DaysBeforeMonth(y, m - 1) + DaysInMonth(y, m - 1)

DaysBeforeYear(y) ==
    (y - 1) * 365 + ((y - 1) \div 4) - ((y - 1) \div 100) + ((y - 1) \div 400)

\* datetime.toordinal(): 0001-01-01 is day 1
Ordinal(y, m, d) == DaysBeforeYear(y) + DaysBeforeMonth(y, m) + d

\* ordinal of datetime.max, 9999-12-31
MaxOrdinal == 3652059

SecondsPerDay == 86400

\* a <= b on instants
DtLe(a, b) ==
    \/ a.day < b.day
    \/ a.day = b.day /\ a.sec < b.sec
    \/ a.day = b.day /\ a.sec = b.sec /\ a.us <= b.us

\* a >= b on instants
DtGe(a, b) == DtLe(b, a)

\* dt + timedelta(days=n), n may be negative
AddDays(dt, n) == Instant(dt.day + n, dt.sec, dt.us)

\* datetime.strptime(digits, "%Y%m%d%H%M%S") on 14 digits: every field takes
\* two digits (four for the year) or the call raises ValueError
Strptime(digits) ==
    LET y  == ToInt(SubSeq(digits, 1, 4))
        mo == ToInt(SubSeq(digits, 5, 6))
        d  == ToInt(SubSeq(digits, 7, 8))
        h  == ToInt(SubSeq(digits, 9, 10))
        mi == ToInt(SubSeq(digits, 11, 12))
        s  == ToInt(SubSeq(digits, 13, 14))
    IN  IF /\ y >= 1
           /\ mo >= 1 /\ mo <= 12
           /\ d >= 1 /\ d <= DaysInMonth(y, mo)
           /\ h <= 23 /\ mi <= 59 /\ s <= 59
        THEN Instant(Ordinal(y, mo, d), h * 3600 + mi * 60 + s, 0)
        ELSE Raised

\* group 2 of the regular expression (\d{14})(?:\s*([+\-]\d{4}|Z))? applied
\* to what follows the 14 digits; << >> when the optional group does not match
TzGroup(rest) ==
    LET r == LStrip(rest)
    IN  IF Len(r) >= 5 /\ r[1] \in {"+", "-"} /\ AllDigits(SubSeq(r, 2, 5))
        THEN SubSeq(r, 1, 5)
        ELSE IF Len(r) >= 1 /\ r[1] = "Z" THEN <<"Z">>
        ELSE << >>

\* variant: the offset is added to the local time instead of subtracted
ApplyOffset_Added(base, tz) ==
    LET sign  == IF tz[1] = "+" THEN 1 ELSE -1
        hours == ToInt(SubSeq(tz, 2, 3))
        mins  == ToInt(SubSeq(tz, 4, 5))
        total == hours * 60 + mins
        secs  == base.sec + sign * total * 60
        shift == (secs + 2 * SecondsPerDay) \div SecondsPerDay - 2
        day   == base.day + shift
    IN  IF total >= 24 * 60 THEN Raised
        ELSE IF day < 1 \/ day > MaxOrdinal THEN Raised
        ELSE Instant(day, secs - shift * SecondsPerDay, 0)

\* base.replace(tzinfo=timezone(sign * timedelta(hours, minutes)))
\*     .astimezone(timezone.utc)
ApplyOffset(base, tz) ==
    LET sign  == IF tz[1] = "+" THEN 1 ELSE -1
        hours == ToInt(SubSeq(tz, 2, 3))
        mins  == ToInt(SubSeq(tz, 4, 5))
        total == hours * 60 + mins
        secs  == base.sec - sign * total * 60
        shift == (secs + 2 * SecondsPerDay) \div SecondsPerDay - 2
        day   == base.day + shift
    IN  IF total >= 24 * 60 THEN Raised
        ELSE IF day < 1 \/ day > MaxOrdinal THEN Raised
        ELSE Instant(day, secs - shift * SecondsPerDay, 0)

parse_xmltv_time(ts) ==
    IF ts = << >> THEN None
    ELSE IF ~(Len(ts) >= 14 /\ AllDigits(SubSeq(ts, 1, 14))) THEN None
    ELSE LET base == Strptime(SubSeq(ts, 1, 14))
             tz   == TzGroup(SubSeq(ts, 15, Len(ts)))
         IN  IF base.kind = "raise" THEN Raised
             ELSE IF tz # << >> /\ tz # <<"Z">> THEN ApplyOffset(base, tz)
             ELSE base

\* variant: a programme without stop is kept whatever its start
intersects_window_NoStopKept(start_dt, stop_dt, win_start, win_end) ==
    IF start_dt.kind = "none" /\ stop_dt.kind = "none" THEN TRUE
    ELSE IF start_dt.kind = "none" THEN DtGe(stop_dt, win_start)
    ELSE IF stop_dt.kind = "none" THEN TRUE
    ELSE DtLe(start_dt, win_end) /\ DtGe(stop_dt, win_start)

\* variant: the two bounds are swapped when both instants are present
intersects_window_BoundsSwapped(start_dt, stop_dt, win_start, win_end) ==
    IF start_dt.kind = "none" /\ stop_dt.kind = "none" THEN TRUE
    ELSE IF start_dt.kind = "none" THEN DtGe(stop_dt, win_start)
    ELSE IF stop_dt.kind = "none" THEN DtLe(start_dt, win_end)
    ELSE DtLe(start_dt, win_start) /\ DtGe(stop_dt, win_end)

intersects_window(start_dt, stop_dt, win_start, win_end) ==
    IF start_dt.kind = "none" /\ stop_dt.kind = "none" THEN TRUE
    ELSE IF start_dt.kind = "none" THEN DtGe(stop_dt, win_start)
    ELSE IF stop_dt.kind = "none" THEN DtLe(start_dt, win_end)
    ELSE DtLe(start_dt, win_end) /\ DtGe(stop_dt, win_start)

(* --------------------------- XML elements ------------------------------ *)

\* An element of a fetched document.  cid is the channel's id attribute or
\* the programme's channel attribute ("" when missing or empty), start and
\* stop are the raw attribute strings, title is the text of the first
\* <title> child, meta stands for everything else the element carries.
\* src and pos identify the element object: the source it was fetched from
\* and its place among that document's elements of the same tag.
Element(tag, cid, start, stop, title, meta, src, pos) ==
    [tag |-> tag, cid |-> cid, start |-> start, stop |-> stop,
     title |-> title, meta |-> meta, src |-> src, pos |-> pos]

\* timestamps the sources may carry; the run's clock is 2024-01-05 12:00 UTC
\* 2024-01-08 00:00:00, inside the window
TsInside == <<"2","0","2","4","0","1","0","8","0","0","0","0","0","0">>

\* 2024-01-12 12:00:00, the instant now + 7 days
TsWinEnd == <<"2","0","2","4","0","1","1","2","1","2","0","0","0","0">>

\* 2024-01-03 12:00:00, the instant now - 2 days
TsWinStart == <<"2","0","2","4","0","1","0","3","1","2","0","0","0","0">>

\* the same instant written with an offset
TsWinStartOffset ==
    <<"2","0","2","4","0","1","0","3","1","4","0","0","0","0"," ","+","0","2","0","0">>

\* 2024-01-20 00:00:00, after the window
TsAfter == <<"2","0","2","4","0","1","2","0","0","0","0","0","0","0">>

\* does not match the regular expression
TsGarbage == <<"n","o","t","-","a","-","d","a","t","e">>

\* 14 digits that are no calendar date (month 13)
TsMonth13 == <<"2","0","2","4","1","3","0","1","0","0","0","0","0","0">>

TsEmpty == << >>

TitleNews == <<"N","e","w","s">>

TitleNewsPadded == <<" ","N","e","w","s","\n">>

Prog(cid, start, stop, title) ==
    [cid |-> cid, start |-> start, stop |-> stop, title |-> title]

\* programme elements a source may carry
ProgrammePool ==
    { Prog("X1", TsInside, TsWinEnd, TitleNews),
      Prog("X1", TsInside, TsWinEnd, TitleNewsPadded),
      Prog("X1", TsEmpty, TsWinStart, TitleNews),
      Prog("X1", TsEmpty, TsWinStartOffset, TitleNews),
      Prog("X1", TsAfter, TsEmpty, TitleNews),
      Prog("X1", TsGarbage, TsEmpty, << >>),
      Prog("X1", TsMonth13, TsMonth13, TitleNews) }

\* channel ids a source may carry; "" is a missing or empty id attribute
ChannelPool == { "X1", "" }

\* the rest of an element's content (display names, descriptions, ...);
\* every source words it its own way
MetaOf(src) == <<"M", src>>

\* the documents etree.parse can return that have at most n elements
Documents(n) ==
    UNION { { [ok |-> TRUE, channels |-> cs, programmes |-> ps] :
                cs \in [1..shape[1] -> ChannelPool],
                ps \in [1..shape[2] -> ProgrammePool] } :
            shape \in { sh \in (0..n) \X (0..n) : sh[1] + sh[2] <= n } }

\* what the run keeps of a source whose fetch_xml raised
NoDoc == [ok |-> FALSE, channels |-> << >>, programmes |-> << >>]

\* number of elements in the documents of a sequence
RECURSIVE ElementCount(_)
ElementCount(docs) ==
    IF docs = << >> THEN 0
    ELSE Len(Head(docs).channels) + Len(Head(docs).programmes)
         + ElementCount(Tail(docs))

\* root.findall("channel") of the document fetched from source src
ChannelElements(d, src) ==
    [i \in 1..Len(d.channels) |->
        Element("channel", d.channels[i], << >>, << >>, << >>,
                MetaOf(src), src, i)]

\* root.findall("programme") of the document fetched from source src
ProgrammeElements(d, src) ==
    [i \in 1..Len(d.programmes) |->
        Element("programme", d.programmes[i].cid, d.programmes[i].start,
                d.programmes[i].stop, d.programmes[i].title,
                MetaOf(src), src, i)]

(* ------------------------------ the merge ------------------------------ *)

\* variant: the key holds the parsed instants in place of the raw strings
DedupKey_Instants(pr) ==
    <<pr.cid, parse_xmltv_time(pr.start), parse_xmltv_time(pr.stop),
      Strip(pr.title)>>

\* key = (ch_id, start_s, stop_s, title_text)
DedupKey(pr) == <<pr.cid, pr.start, pr.stop, Strip(pr.title)>>

\* variant: the test for an empty id is left out
ChannelAccepted_EmptyIdPasses(cid, seen) == cid \notin seen

\* if cid and cid not in channel_ids_seen
ChannelAccepted(cid, seen) == cid # "" /\ cid \notin seen

\* variant: the key is never found
KeySeen_Never(key, seen) == FALSE

\* if key in programme_keys_seen: continue
KeySeen(key, seen) == key \in seen

\* the accumulating state of main(): the Unified Document and the seen sets;
\* raised tells that an exception left the loop
MergeState(root, chans, keys, raised) ==
    [tv_root |-> root, channel_ids_seen |-> chans,
     programme_keys_seen |-> keys, raised |-> raised]

\* one iteration of  for ch in root.findall("channel")
ChannelStep(ch, st) ==
    IF ChannelAccepted(ch.cid, st.channel_ids_seen)
    THEN MergeState(Append(st.tv_root, ch), st.channel_ids_seen \cup {ch.cid},
                    st.programme_keys_seen, st.raised)
    ELSE st

\* variant: a retained programme is put in front of the children
ProgrammeStep_Prepends(pr, st, ws, we) ==
    LET start_dt == parse_xmltv_time(pr.start)
        stop_dt  == parse_xmltv_time(pr.stop)
        key      == DedupKey(pr)
    IN  IF start_dt.kind = "raise" \/ stop_dt.kind = "raise"
        THEN MergeState(st.tv_root, st.channel_ids_seen,
                        st.programme_keys_seen, TRUE)
        ELSE IF ~intersects_window(start_dt, stop_dt, ws, we) THEN st
        ELSE IF KeySeen(key, st.programme_keys_seen) THEN st
        ELSE MergeState(<<pr>> \o st.tv_root, st.channel_ids_seen,
                        st.programme_keys_seen \cup {key}, st.raised)

\* one iteration of  for pr in root.findall("programme")
ProgrammeStep(pr, st, ws, we) ==
    LET start_dt == parse_xmltv_time(pr.start)
        stop_dt  == parse_xmltv_time(pr.stop)
        key      == DedupKey(pr)
    IN  IF start_dt.kind = "raise" \/ stop_dt.kind = "raise"
        THEN MergeState(st.tv_root, st.channel_ids_seen,
                        st.programme_keys_seen, TRUE)
        ELSE IF ~intersects_window(start_dt, stop_dt, ws, we) THEN st
        ELSE IF KeySeen(key, st.programme_keys_seen) THEN st
        ELSE MergeState(Append(st.tv_root, pr), st.channel_ids_seen,
                        st.programme_keys_seen \cup {key}, st.raised)

RECURSIVE ChannelLoop(_, _)
ChannelLoop(chs, st) ==
    IF chs = << >> THEN st ELSE ChannelLoop(Tail(chs), ChannelStep(Head(chs), st))

\* the loop stops at the first iteration that raises
RECURSIVE ProgrammeLoop(_, _, _, _)
ProgrammeLoop(prs, st, ws, we) ==
    IF prs = << >> \/ st.raised THEN st
    ELSE ProgrammeLoop(Tail(prs), ProgrammeStep(Head(prs), st, ws, we), ws, we)

\* lines 133-159: both loops over one fetched document
MergeDocument(d, src, st, ws, we) ==
    ProgrammeLoop(ProgrammeElements(d, src),
                  ChannelLoop(ChannelElements(d, src), st), ws, we)

\* variant: and in place of or
FallbackNeeded_And(ok, chans, keys) ==
    ok = 0 /\ (Cardinality(chans) = 0 /\ Cardinality(keys) = 0)

\* if sources_ok == 0 or (len(channel_ids_seen) == 0 and len(programme_keys_seen) == 0)
FallbackNeeded(ok, chans, keys) ==
    ok = 0 \/ (Cardinality(chans) = 0 /\ Cardinality(keys) = 0)

(* ------------------------------- files --------------------------------- *)

\* a piece of a file's content: the serialized form of one element (object
\* identity is not part of it) or of the declaration and the root's tags
Chunk(tag, cid, start, stop, title, meta) ==
    [tag |-> tag, cid |-> cid, start |-> start, stop |-> stop,
     title |-> title, meta |-> meta]

FrameChunk(tag) == Chunk(tag, "", << >>, << >>, << >>, << >>)

ElementChunk(e) == Chunk(e.tag, e.cid, e.start, e.stop, e.title, e.meta)

\* tree.write(f, encoding="utf-8", xml_declaration=True): the declaration
\* and the root's tags, then the children in order
Serialize(root) ==
    <<FrameChunk("tv")>> \o [i \in 1..Len(root) |-> ElementChunk(root[i])]

Absent == [exists |-> FALSE, content |-> << >>]

File(content) == [exists |-> TRUE, content |-> content]

\* the last good output, dist/epg.xml.gz, when there is one
PreviousGood ==
    <<FrameChunk("tv"), Chunk("channel", "X9", << >>, << >>, << >>, <<"M", 9>>)>>

\* what an earlier run may have left at merged_epg.xml.gz
StaleOutput ==
    <<FrameChunk("tv"), Chunk("channel", "X8", << >>, << >>, << >>, <<"M", 8>>)>>

(* ------------------------------ fetching ------------------------------- *)

\* what an attempt of fetch_xml can raise: requests.get (connection error or
\* timeout), raise_for_status, gzip.decompress, etree.parse
ErrorKinds == {"network", "http_status", "decompress", "parse"}

\* the exception object an attempt raised; every attempt raises its own
Error(kind, n) == [kind |-> kind, attempt |-> n]

\* last = None
NoError == Error("none", 0)

\* the value of result before parse_xmltv_time has returned or raised
NotCalled == [kind |-> "pending", day |-> 0, sec |-> 0, us |-> 0]

(* --------------------------- the state machine ------------------------- *)

VARIABLES
    pc,                   \* where the run is
    win_start, win_end,   \* the retention window, computed once
    idx,                  \* position of url in URLS (1-based)
    attempt,              \* fetch_xml's attempt
    fetched,              \* per source already left behind: its document or NoDoc
    tv_root,              \* children of the <tv> element, in order
    channel_ids_seen,
    programme_keys_seen,
    sources_ok,
    output,               \* the file at OUTPUT_NAME
    output_before,        \* the file at OUTPUT_NAME when the run started
    previous,             \* the file at PREVIOUS_DIST
    outcome,              \* how the run ended
    exit_code,            \* process exit status, -1 while running
    last,                 \* fetch_xml's local: the latest exception caught
    slept,                \* arguments of this call's time.sleep calls, in order
    previous_read,        \* whether the run has looked at PREVIOUS_DIST
    ts_arg,               \* parse_xmltv_time: the argument of a call
    result                \* parse_xmltv_time: what came of the call

vars == <<pc, win_start, win_end, idx, attempt, fetched, tv_root,
          channel_ids_seen, programme_keys_seen, sources_ok, output,
          output_before, previous, outcome, exit_code, last, slept,
          previous_read, ts_arg, result>>

fetch_vars == <<last, slept>>

parser_vars == <<ts_arg, result>>

merge_vars == <<tv_root, channel_ids_seen, programme_keys_seen>>

file_vars == <<output, output_before, previous>>

\* datetime.now(timezone.utc): 2024-01-05 12:00:00, on the second or past it
NowSet == { Instant(Ordinal(2024, 1, 5), 12 * 3600, u) : u \in {0, 1} }

Init ==
    /\ \E now \in NowSet :
          /\ win_start = AddDays(now, 0 - KEEP_PAST_DAYS)
          /\ win_end = AddDays(now, KEEP_FUTURE_DAYS)
    /\ pc = "fetch"
    /\ idx = 1
    /\ attempt = 1
    /\ fetched = << >>
    /\ tv_root = << >>
    /\ channel_ids_seen = {}
    /\ programme_keys_seen = {}
    /\ sources_ok = 0
    /\ output \in {Absent, File(StaleOutput)}
    /\ output_before = output
    /\ previous \in {Absent, File(PreviousGood)}
    /\ outcome = "running"
    /\ exit_code = -1
    /\ last = NoError
    /\ slept = << >>
    /\ previous_read = FALSE
    /\ ts_arg = << >>
    /\ result = NotCalled

\* for url in URLS: the next url, or the code after the loop; the locals of
\* the fetch_xml call that has ended are gone, the next call starts afresh
NextSource ==
    /\ idx' = idx + 1
    /\ attempt' = 1
    /\ last' = NoError
    /\ slept' = << >>
    /\ pc' = IF idx = NumSources THEN "guard" ELSE "fetch"

\* variant: last keeps the first exception of the call
AttemptFails_KeepsFirst ==
    /\ pc = "fetch"
    /\ attempt <= Retries
    /\ attempt' = attempt + 1
    /\ \E kind \in ErrorKinds :
          last' = (IF last = NoError THEN Error(kind, attempt) ELSE last)
    /\ slept' = Append(slept, 2 * attempt)
    /\ UNCHANGED <<pc, win_start, win_end, idx, fetched, merge_vars,
                   sources_ok, file_vars, outcome, exit_code,
                   previous_read, parser_vars>>

\* fetch_xml: an attempt raises an exception of some kind, which the except
\* clause binds to last; then time.sleep(2 * attempt) and the next iteration
AttemptFails ==
    /\ pc = "fetch"
    /\ attempt <= Retries
    /\ attempt' = attempt + 1
    /\ \E kind \in ErrorKinds : last' = Error(kind, attempt)
    /\ slept' = Append(slept, 2 * attempt)
    /\ UNCHANGED <<pc, win_start, win_end, idx, fetched, merge_vars,
                   sources_ok, file_vars, outcome, exit_code, previous_read, parser_vars>>

\* fetch_xml: an attempt returns etree.parse(...) and the call is over, its
\* locals gone
AttemptSucceeds ==
    /\ pc = "fetch"
    /\ attempt <= Retries
    /\ pc' = "merge"
    /\ attempt' = 1
    /\ last' = NoError
    /\ slept' = << >>
    /\ UNCHANGED <<win_start, win_end, idx, fetched, merge_vars, sources_ok,
                   file_vars, outcome, exit_code, previous_read, parser_vars>>

\* main counts the source and runs its two loops over the document (lines
\* 128, 133-159), whose content shows here; an exception raised by
\* parse_xmltv_time is caught nowhere and ends the process with a traceback
\* and status 1
MergeSource ==
    /\ pc = "merge"
    /\ \E d \in Documents(MaxElements - ElementCount(fetched)) :
         LET st == MergeDocument(d, idx,
                       MergeState(tv_root, channel_ids_seen,
                                  programme_keys_seen, FALSE),
                       win_start, win_end)
         IN  /\ sources_ok' = sources_ok + 1
             /\ tv_root' = st.tv_root
             /\ channel_ids_seen' = st.channel_ids_seen
             /\ programme_keys_seen' = st.programme_keys_seen
             /\ fetched' = Append(fetched, d)
             /\ IF st.raised
                THEN /\ pc' = "done"
                     /\ outcome' = "crashed"
                     /\ exit_code' = 1
                     /\ UNCHANGED <<idx, attempt, fetch_vars>>
                ELSE /\ NextSource
                     /\ UNCHANGED <<outcome, exit_code>>
    /\ UNCHANGED <<win_start, win_end, file_vars, previous_read,
                   parser_vars>>

\* variant: the exception is not caught and ends the run
FetchRaises_Uncaught ==
    /\ pc = "fetch"
    /\ attempt > Retries
    /\ fetched' = Append(fetched, NoDoc)
    /\ pc' = "done"
    /\ outcome' = "crashed"
    /\ exit_code' = 1
    /\ UNCHANGED <<win_start, win_end, idx, attempt, merge_vars, sources_ok,
                   file_vars, fetch_vars, previous_read, parser_vars>>

\* fetch_xml: raise last, after the loop; main prints and continues
FetchRaises ==
    /\ pc = "fetch"
    /\ attempt > Retries
    /\ fetched' = Append(fetched, NoDoc)
    /\ NextSource
    /\ UNCHANGED <<win_start, win_end, merge_vars, sources_ok, file_vars,
                   outcome, exit_code, previous_read, parser_vars>>

\* main, line 162
Guard ==
    /\ pc = "guard"
    /\ pc' = IF FallbackNeeded(sources_ok, channel_ids_seen, programme_keys_seen)
             THEN "fallback" ELSE "serialize"
    /\ UNCHANGED <<win_start, win_end, idx, attempt, fetched, merge_vars,
                   sources_ok, file_vars, outcome, exit_code, fetch_vars,
                   previous_read, parser_vars>>

\* variant: the artifact is moved to the output path, not copied
CopyOpen_Moves ==
    /\ pc = "fallback"
    /\ previous.exists
    /\ previous_read' = TRUE
    /\ output' = File(<< >>)
    /\ previous' = Absent
    /\ pc' = "copy"
    /\ UNCHANGED <<win_start, win_end, idx, attempt, fetched, merge_vars,
                   sources_ok, output_before, outcome, exit_code,
                   fetch_vars, parser_vars>>

\* fallback_to_previous: os.path.exists looks at the previous artifact and
\* finds it; shutil.copyfile opens it for reading and opens the destination
\* for writing, which creates or truncates it
CopyOpen ==
    /\ pc = "fallback"
    /\ previous.exists
    /\ previous_read' = TRUE
    /\ output' = File(<< >>)
    /\ pc' = "copy"
    /\ UNCHANGED <<win_start, win_end, idx, attempt, fetched, merge_vars,
                   sources_ok, output_before, previous, outcome, exit_code,
                   fetch_vars, parser_vars>>

\* shutil.copyfile: the next piece of the source reaches the destination
CopyChunk ==
    /\ pc = "copy"
    /\ Len(output.content) < Len(previous.content)
    /\ output' = File(Append(output.content,
                             previous.content[Len(output.content) + 1]))
    /\ UNCHANGED <<pc, win_start, win_end, idx, attempt, fetched,
                   merge_vars, sources_ok, output_before, previous, outcome,
                   exit_code, fetch_vars, previous_read, parser_vars>>

\* variant: the copy may stop before the last piece
CopyDone_Truncated ==
    /\ pc = "copy"
    /\ pc' = "done"
    /\ outcome' = "fallback"
    /\ exit_code' = 0
    /\ UNCHANGED <<win_start, win_end, idx, attempt, fetched, merge_vars,
                   sources_ok, file_vars, fetch_vars, previous_read,
                   parser_vars>>

\* shutil.copyfile returns; print and sys.exit(0)
CopyDone ==
    /\ pc = "copy"
    /\ Len(output.content) = Len(previous.content)
    /\ pc' = "done"
    /\ outcome' = "fallback"
    /\ exit_code' = 0
    /\ UNCHANGED <<win_start, win_end, idx, attempt, fetched, merge_vars,
                   sources_ok, file_vars, fetch_vars, previous_read,
                   parser_vars>>

\* variant: the exit status is 0
FallbackMissing_ExitZero ==
    /\ pc = "fallback"
    /\ ~previous.exists
    /\ previous_read' = TRUE
    /\ pc' = "done"
    /\ outcome' = "fatal"
    /\ exit_code' = 0
    /\ UNCHANGED <<win_start, win_end, idx, attempt, fetched, merge_vars,
                   sources_ok, file_vars, fetch_vars, parser_vars>>

\* fallback_to_previous: os.path.exists finds no previous artifact; print
\* and sys.exit(1)
FallbackMissing ==
    /\ pc = "fallback"
    /\ ~previous.exists
    /\ previous_read' = TRUE
    /\ pc' = "done"
    /\ outcome' = "fatal"
    /\ exit_code' = 1
    /\ UNCHANGED <<win_start, win_end, idx, attempt, fetched, merge_vars,
                   sources_ok, file_vars, fetch_vars, parser_vars>>

\* gzip.open(OUTPUT_NAME, "wb") creates or truncates the output
WriteOpen ==
    /\ pc = "serialize"
    /\ output' = File(<< >>)
    /\ pc' = "write"
    /\ UNCHANGED <<win_start, win_end, idx, attempt, fetched, merge_vars,
                   sources_ok, output_before, previous, outcome, exit_code,
                   fetch_vars, previous_read, parser_vars>>

\* tree.write(f, ...): the next piece of the document reaches the file
WriteChunk ==
    /\ pc = "write"
    /\ Len(output.content) < Len(Serialize(tv_root))
    /\ output' = File(Append(output.content,
                             Serialize(tv_root)[Len(output.content) + 1]))
    /\ UNCHANGED <<pc, win_start, win_end, idx, attempt, fetched,
                   merge_vars, sources_ok, output_before, previous, outcome,
                   exit_code, fetch_vars, previous_read, parser_vars>>

\* the with block closes the file; main prints and returns
WriteClose ==
    /\ pc = "write"
    /\ Len(output.content) = Len(Serialize(tv_root))
    /\ pc' = "done"
    /\ outcome' = "merged"
    /\ exit_code' = 0
    /\ UNCHANGED <<win_start, win_end, idx, attempt, fetched, merge_vars,
                   sources_ok, file_vars, fetch_vars, previous_read,
                   parser_vars>>

Next ==
    \/ AttemptFails
    \/ AttemptSucceeds
    \/ MergeSource
    \/ FetchRaises
    \/ Guard
    \/ CopyOpen
    \/ CopyChunk
    \/ CopyDone
    \/ FallbackMissing
    \/ WriteOpen
    \/ WriteChunk
    \/ WriteClose

Spec == Init /\ [][Next]_vars

(* ------------------- parse_xmltv_time, call by call -------------------- *)

\* the 14 leading characters of the strings handed to parse_xmltv_time
\* 2024-01-01 12:00:00
DigitsNoon ==
    <<"2", "0", "2", "4", "0", "1", "0", "1", "1", "2", "0", "0", "0", "0">>

\* 2024-01-01 00:30:00, half an hour into the year
DigitsAfterMidnight ==
    <<"2", "0", "2", "4", "0", "1", "0", "1", "0", "0", "3", "0", "0", "0">>

\* 2023-12-31 23:30:00, half an hour before the year ends
DigitsBeforeMidnight ==
    <<"2", "0", "2", "3", "1", "2", "3", "1", "2", "3", "3", "0", "0", "0">>

\* 2024-02-29 23:59:59, the last second of a leap day
DigitsLeapDay ==
    <<"2", "0", "2", "4", "0", "2", "2", "9", "2", "3", "5", "9", "5", "9">>

\* 14 digits that are no time of day (hour 25)
DigitsHour25 ==
    <<"2", "0", "2", "4", "0", "1", "0", "1", "2", "5", "0", "0", "0", "0">>

\* 14 digits that are no calendar date (29 February 2023)
DigitsFeb29 ==
    <<"2", "0", "2", "3", "0", "2", "2", "9", "0", "0", "0", "0", "0", "0">>

\* 0001-01-01 00:00:00, datetime.min
DigitsYearOne ==
    <<"0", "0", "0", "1", "0", "1", "0", "1", "0", "0", "0", "0", "0", "0">>

DigitPool ==
    { DigitsNoon, DigitsAfterMidnight, DigitsBeforeMidnight, DigitsLeapDay,
      TsMonth13, DigitsHour25, DigitsFeb29, DigitsYearOne }

\* what may follow the 14 digits: nothing, Z or a signed offset with or
\* without whitespace before it, offsets of a day and more, and characters
\* that are no suffix of the grammar
SuffixPool ==
    { << >>,
      <<"Z">>,
      <<" ", "Z">>,
      <<"+", "0", "0", "0", "0">>,
      <<" ", "+", "0", "0", "0", "0">>,
      <<"+", "0", "2", "0", "0">>,
      <<" ", "+", "0", "2", "0", "0">>,
      <<"\t", "+", "0", "2", "0", "0">>,
      <<"-", "0", "1", "3", "0">>,
      <<" ", "-", "0", "1", "3", "0">>,
      <<"+", "0", "1", "0", "0">>,
      <<"-", "2", "3", "5", "9">>,
      <<"+", "2", "4", "0", "0">>,
      <<"+", "9", "9", "0", "0">>,
      <<"-", "2", "4", "0", "0">>,
      <<"+", "0", "2">>,
      <<"x", "x">>,
      <<"5">>,
      <<" ">>,
      <<"+", "0", "2", "0", "0", "x", "x">>,
      <<"Z", "9">>,
      <<" ", "U", "T", "C">>,
      <<"+", "0", "2", ":", "0", "0">> }

\* strings the regular expression does not match
Unmatched ==
    { << >>,
      TsGarbage,
      <<"2", "0", "2", "4", "0", "1", "0", "1", "1", "2", "0", "0", "0">>,
      <<" ", "2", "0", "2", "4", "0", "1", "0", "1", "1", "2", "0", "0", "0", "0">>,
      <<"2", "0", "2", "4", "-", "0", "1", "-", "0", "1", " ", "1", "2", ":", "0", "0">> }

\* the arguments of the calls
ParserInputs == { d \o sfx : d \in DigitPool, sfx \in SuffixPool } \cup Unmatched

\* a call of parse_xmltv_time with some string; no run of main is under way
ParserInit ==
    /\ ts_arg \in ParserInputs
    /\ result = NotCalled
    /\ pc = "parser"
    /\ win_start = None
    /\ win_end = None
    /\ idx = 1
    /\ attempt = 1
    /\ fetched = << >>
    /\ tv_root = << >>
    /\ channel_ids_seen = {}
    /\ programme_keys_seen = {}
    /\ sources_ok = 0
    /\ output = Absent
    /\ output_before = Absent
    /\ previous = Absent
    /\ outcome = "running"
    /\ exit_code = -1
    /\ last = NoError
    /\ slept = << >>
    /\ previous_read = FALSE

\* the call returns an instant or None, or an exception leaves it
ParseCall ==
    /\ pc = "parser"
    /\ result = NotCalled
    /\ result' = parse_xmltv_time(ts_arg)
    /\ UNCHANGED <<pc, win_start, win_end, idx, attempt, fetched, merge_vars,
                   sources_ok, file_vars, outcome, exit_code, fetch_vars,
                   previous_read, ts_arg>>

\* the next call, with another string
ParseNext ==
    /\ pc = "parser"
    /\ result # NotCalled
    /\ ts_arg' \in ParserInputs
    /\ result' = NotCalled
    /\ UNCHANGED <<pc, win_start, win_end, idx, attempt, fetched, merge_vars,
                   sources_ok, file_vars, outcome, exit_code, fetch_vars,
                   previous_read>>

ParserNext ==
    \/ ParseCall
    \/ ParseNext

ParserSpec == ParserInit /\ [][ParserNext]_vars

(* ------------------------ vocabulary of the claims --------------------- *)

\* the timestamps that occur in the sources, and what the parser makes of each
Timestamps ==
    { pr.start : pr \in ProgrammePool } \cup { pr.stop : pr \in ProgrammePool }

ParseTable == [str \in Timestamps |-> parse_xmltv_time(str)]

Parsed(str) == ParseTable[str]

RetainedChannels ==
    { tv_root[i] : i \in { j \in 1..Len(tv_root) : tv_root[j].tag = "channel" } }

RetainedProgrammes ==
    { tv_root[i] : i \in { j \in 1..Len(tv_root) : tv_root[j].tag = "programme" } }

RetainedKeys == { DedupKey(e) : e \in RetainedProgrammes }

\* the programme makes parse_xmltv_time raise
Raises(pr) ==
    Parsed(pr.start).kind = "raise"
        \/ Parsed(pr.stop).kind = "raise"

\* how many programme elements of a document the loop gets to: all of them,
\* or those up to and including the first that raises
RECURSIVE ReachedCount(_)
ReachedCount(prs) ==
    IF prs = << >> THEN 0
    ELSE IF Raises(Head(prs)) THEN 1
    ELSE 1 + ReachedCount(Tail(prs))

\* sources whose document the run has merged (or begun to merge)
FetchedSources == { k \in 1..Len(fetched) : fetched[k].ok }

\* every channel element the run has iterated over
OfferedChannels ==
    UNION { { ChannelElements(fetched[k], k)[i] :
                i \in 1..Len(fetched[k].channels) } : k \in FetchedSources }

\* every programme element the run has iterated over
OfferedProgrammes ==
    UNION { { ProgrammeElements(fetched[k], k)[i] :
                i \in 1..ReachedCount(fetched[k].programmes) } :
            k \in FetchedSources }

\* e1 comes before e2 in source-list order, then document order
Earlier(e1, e2) ==
    e1.src < e2.src \/ (e1.src = e2.src /\ e1.pos < e2.pos)

\* the window policy, on the raw strings of a programme
WindowPolicy(pr) ==
    LET s == Parsed(pr.start)
        t == Parsed(pr.stop)
    IN  \/ s.kind = "none" /\ t.kind = "none"
        \/ s.kind = "dt" /\ t.kind = "none" /\ DtLe(s, win_end)
        \/ s.kind = "none" /\ t.kind = "dt" /\ DtLe(win_start, t)
        \/ s.kind = "dt" /\ t.kind = "dt" /\ DtLe(s, win_end) /\ DtLe(win_start, t)

\* the loop over the sources is over and no exception ended the run
LoopCompleted == idx > NumSources /\ outcome # "crashed"

(* ------------------------------- claims -------------------------------- *)

\* C1: no two programme elements of tv_root share the dedup key (channel,
\* raw start, raw stop, trimmed title), and each retained programme is the
\* first programme with its key that passes the window, in source-list order
\* and then document order; later ones with the key are not in tv_root, and
\* every key of a window-passing programme the loop went through is retained.
C1_ProgrammeKeysUniqueFirstWins ==
    /\ \A i, j \in 1..Len(tv_root) :
          ( /\ tv_root[i].tag = "programme"
            /\ tv_root[j].tag = "programme"
            /\ DedupKey(tv_root[i]) = DedupKey(tv_root[j]) ) => i = j
    /\ \A e \in RetainedProgrammes :
          /\ e \in OfferedProgrammes
          /\ WindowPolicy(e)
          /\ \A o \in OfferedProgrammes :
                (DedupKey(o) = DedupKey(e) /\ WindowPolicy(o)) =>
                    (o = e \/ Earlier(e, o))
    /\ \A o \in OfferedProgrammes :
          WindowPolicy(o) => DedupKey(o) \in RetainedKeys
    /\ programme_keys_seen = RetainedKeys

\* C1 witness: the run ended with a merged document from which a later
\* programme was discarded because an earlier source had its key.
C1_Witness ==
    /\ outcome = "merged"
    /\ \E e \in RetainedProgrammes : \E o \in OfferedProgrammes :
          /\ o.src > e.src
          /\ DedupKey(o) = DedupKey(e)
          /\ o.title # e.title
          /\ o \notin RetainedProgrammes

\* C2: no two channel elements of tv_root share an id, none has an empty id,
\* and each id a fetched source carries is retained from the earliest source
\* (then earliest place) that carries it, with that source's metadata.
C2_ChannelIdsUniqueFirstWins ==
    /\ \A i, j \in 1..Len(tv_root) :
          ( /\ tv_root[i].tag = "channel"
            /\ tv_root[j].tag = "channel"
            /\ tv_root[i].cid = tv_root[j].cid ) => i = j
    /\ \A e \in RetainedChannels :
          /\ e.cid # ""
          /\ e \in OfferedChannels
          /\ e.meta = MetaOf(e.src)
          /\ \A o \in OfferedChannels :
                o.cid = e.cid => (o = e \/ Earlier(e, o))
    /\ \A o \in OfferedChannels :
          o.cid # "" => \E e \in RetainedChannels : e.cid = o.cid
    /\ channel_ids_seen = { e.cid : e \in RetainedChannels }

\* C2 witness: two sources listed the same channel id and the merged
\* document that was written carries the earlier source's element.
C2_Witness ==
    /\ outcome = "merged"
    /\ \E e \in RetainedChannels : \E o \in OfferedChannels :
          /\ o.cid = e.cid
          /\ o.src > e.src
          /\ e.meta = MetaOf(e.src)
          /\ o.meta # e.meta

\* C3: when every source failed and the previous artifact exists, the run
\* never serializes, and it ends with exit code 0 and an output equal to the
\* previous artifact.
C3_AllFailedFallbackCopies ==
    (idx > NumSources /\ sources_ok = 0 /\ previous.exists) =>
        /\ pc \in {"guard", "fallback", "copy", "done"}
        /\ pc = "done" =>
              /\ exit_code = 0
              /\ outcome = "fallback"
              /\ output = previous

\* C3 witness: such a run has ended and replaced what was at the output path.
C3_Witness ==
    /\ pc = "done"
    /\ sources_ok = 0
    /\ previous = File(PreviousGood)
    /\ output_before = File(StaleOutput)
    /\ output = File(PreviousGood)
    /\ exit_code = 0

\* C4: when every source failed and there is no previous artifact, the
\* output path stays as it was before the run, and the run ends with exit
\* code 1.
C4_AllFailedNoPreviousExitsOne ==
    (sources_ok = 0 /\ ~previous.exists) =>
        /\ output = output_before
        /\ pc \notin {"copy", "serialize", "write"}
        /\ pc = "done" => (exit_code = 1 /\ outcome = "fatal")

\* C4 witness: such a run has ended, with a stale output left untouched.
C4_Witness ==
    /\ pc = "done"
    /\ idx > NumSources
    /\ sources_ok = 0
    /\ ~previous.exists
    /\ exit_code = 1
    /\ output = File(StaleOutput)

\* C5: in every state of a run the output path holds its content from
\* before the run, the complete serialized merged document, or a complete
\* copy of the previous artifact.
C5_NoPartialOutput ==
    \/ output = output_before
    \/ output = File(Serialize(tv_root))
    \/ (previous.exists /\ output = previous)

\* the merge of the fetched documents alone, from source k on, in list order
RECURSIVE MergeFetched(_, _)
MergeFetched(k, st) ==
    IF k > Len(fetched) THEN st
    ELSE IF fetched[k].ok
    THEN MergeFetched(k + 1, MergeDocument(fetched[k], k, st, win_start, win_end))
    ELSE MergeFetched(k + 1, st)

\* C6: when fetch_xml has failed for a source after its retries, main leaves
\* tv_root, the seen sets and sources_ok as they are and moves to the next
\* source without ending the run; and once the loop is over, tv_root is the
\* merge of the fetched documents alone, in list order.
C6_FailedSourceIsSkipped ==
    /\ [][ (pc = "fetch" /\ attempt > Retries) =>
              /\ UNCHANGED <<tv_root, channel_ids_seen, programme_keys_seen,
                             sources_ok>>
              /\ idx' = idx + 1
              /\ attempt' = 1
              /\ pc' = (IF idx = NumSources THEN "guard" ELSE "fetch")
              /\ exit_code' = -1 ]_vars
    /\ [](LoopCompleted =>
              /\ Len(fetched) = NumSources
              /\ sources_ok = Cardinality(FetchedSources)
              /\ tv_root = MergeFetched(1, MergeState(<< >>, {}, {}, FALSE)).tv_root)

\* C6 witness: a source failed, a later one was fetched, and the run wrote a
\* merged document that holds elements of the later source.
C6_Witness ==
    /\ outcome = "merged"
    /\ \E k \in 1..Len(fetched) : \E j \in FetchedSources :
          /\ ~fetched[k].ok
          /\ k < j
          /\ \E i \in 1..Len(tv_root) : tv_root[i].src = j

\* C7: every programme in tv_root satisfies the window policy for the
\* window computed at the start of the run, bounds included; the window is
\* the nine days from now - 2 days to now + 7 days.
C7_RetainedProgrammesIntersectWindow ==
    /\ win_end = AddDays(win_start, KEEP_PAST_DAYS + KEEP_FUTURE_DAYS)
    /\ \A e \in RetainedProgrammes : WindowPolicy(e)

\* C7 witness: a merged document was written that holds a programme ending
\* exactly at win_start, while an offered programme that fails the policy
\* is not in it.
C7_Witness ==
    /\ outcome = "merged"
    /\ \E e \in RetainedProgrammes :
          /\ Parsed(e.stop).kind = "dt"
          /\ Parsed(e.stop) = win_start
    /\ \E o \in OfferedProgrammes :
          ~Raises(o) /\ ~WindowPolicy(o) /\ o \notin RetainedProgrammes

\* a < b on instants
DtLt(a, b) == DtLe(a, b) /\ a # b

Unparsable(str) == Parsed(str).kind # "dt"

\* C9: every programme the merge has come to whose start and stop are both
\* unparsable (missing, empty or malformed) has its dedup key in tv_root.
C9_UnparsableProgrammesKept ==
    \A o \in OfferedProgrammes :
        (Unparsable(o.start) /\ Unparsable(o.stop)) =>
            DedupKey(o) \in RetainedKeys

\* no channel and no programme is retained
NothingRetained == RetainedChannels = {} /\ RetainedProgrammes = {}

\* C10: the run takes the fallback path exactly when sources_ok = 0 or
\* nothing is retained, and then the output path holds nothing but what it
\* held before or what was copied from the previous artifact; otherwise it
\* takes the serialization path and ends with the merged document at the
\* output path and exit code 0.
C10_GuardDecision ==
    /\ (pc \in {"fallback", "copy"} \/ outcome \in {"fallback", "fatal"}) =>
          /\ sources_ok = 0 \/ NothingRetained
          /\ \/ output = output_before
             \/ \E n \in 0..Len(previous.content) :
                   output = File(SubSeq(previous.content, 1, n))
    /\ (pc \in {"serialize", "write"} \/ outcome = "merged") =>
          /\ sources_ok >= 1
          /\ ~NothingRetained
    /\ outcome = "merged" =>
          /\ output = File(Serialize(tv_root))
          /\ exit_code = 0
    /\ (LoopCompleted /\ pc = "done") => outcome \in {"fallback", "fatal", "merged"}

\* C10 witness: a source was fetched but all its records were filtered out,
\* and the run fell back to the previous artifact.
C10_Witness ==
    /\ outcome = "fallback"
    /\ sources_ok >= 1
    /\ \E k \in FetchedSources : fetched[k].programmes # << >>
    /\ \E k \in 1..Len(fetched) : ~fetched[k].ok

\* C11: a run that has ended has exit code 0 exactly when it wrote the merged
\* document or copied the previous artifact, and has exit code 1 only when
\* the guard found a total failure (no source fetched, or nothing retained)
\* and no previous artifact exists; nothing else ends a run with a failure
\* status.
C11_ExitContract ==
    pc = "done" =>
        /\ exit_code \in {0, 1}
        /\ exit_code = 0 <=>
              \/ (outcome = "merged" /\ output = File(Serialize(tv_root)))
              \/ (outcome = "fallback" /\ output = previous)
        /\ exit_code = 1 =>
              /\ idx > NumSources
              /\ sources_ok = 0 \/ NothingRetained
              /\ ~previous.exists

\* C12: fetch_xml makes at most Retries (3) attempts for a URL; an attempt
\* that fails, whatever the kind of its exception, is followed by the next
\* attempt for the same URL as long as fewer than 3 were made; the attempt
\* that succeeds ends the call, with no further attempt for that URL; and
\* when the third attempt has failed, the exception the call raises (last)
\* is the one of the third attempt, and main goes on without counting the
\* source.
C12_FetchRetriesAndRaisesLast ==
    /\ [](pc = "fetch" =>
              /\ attempt \in 1..(Retries + 1)
              /\ attempt = 1 => last = NoError
              /\ attempt > 1 =>
                    /\ last.kind \in ErrorKinds
                    /\ last.attempt = attempt - 1)
    /\ [][ (pc = "fetch" /\ attempt <= Retries) =>
              \/ /\ pc' = "fetch"
                 /\ idx' = idx
                 /\ attempt' = attempt + 1
                 /\ last'.attempt = attempt
                 /\ sources_ok' = sources_ok
                 /\ fetched' = fetched
              \/ /\ pc' = "merge"
                 /\ idx' = idx
                 /\ fetched' = fetched ]_vars
    /\ [][ pc = "merge" =>
              /\ sources_ok' = sources_ok + 1
              /\ Len(fetched') = Len(fetched) + 1
              /\ fetched'[Len(fetched')].ok
              /\ \/ (idx' = idx + 1 /\ attempt' = 1 /\ pc' \in {"fetch", "guard"})
                 \/ (pc' = "done" /\ outcome' = "crashed") ]_vars
    /\ [][ (pc = "fetch" /\ attempt > Retries) =>
              /\ last.attempt = Retries
              /\ idx' = idx + 1
              /\ attempt' = 1
              /\ sources_ok' = sources_ok
              /\ fetched' = Append(fetched, NoDoc) ]_vars

\* C12 witness: after a source that was fetched, the three attempts for the
\* last URL have failed, the third with a parse error, and the call is about
\* to raise that one.
C12_Witness ==
    /\ pc = "fetch"
    /\ idx = NumSources
    /\ attempt = Retries + 1
    /\ last = Error("parse", Retries)
    /\ sources_ok = 1

\* what follows the 14th character of a string
SuffixOf(str) == LStrip(SubSeq(str, 15, Len(str)))

\* the accepted grammar: exactly 14 digits, optionally followed by
\* whitespace and either Z or a sign and 4 digits
InGrammar(str) ==
    /\ Len(str) >= 14
    /\ AllDigits(SubSeq(str, 1, 14))
    /\ \/ Len(str) = 14
       \/ SuffixOf(str) = <<"Z">>
       \/ /\ Len(SuffixOf(str)) = 5
          /\ SuffixOf(str)[1] \in {"+", "-"}
          /\ AllDigits(SubSeq(SuffixOf(str), 2, 5))

\* the number written at places a..b of a string
Field(str, a, b) == ToInt(SubSeq(str, a, b))

\* the 14 digits name a calendar date and a time of day
CalendarValid(str) ==
    /\ Field(str, 1, 4) >= 1
    /\ Field(str, 5, 6) \in 1..12
    /\ Field(str, 7, 8) \in 1..DaysInMonth(Field(str, 1, 4), Field(str, 5, 6))
    /\ Field(str, 9, 10) \in 0..23
    /\ Field(str, 11, 12) \in 0..59
    /\ Field(str, 13, 14) \in 0..59

\* the string ends in a signed offset
HasOffset(str) == SuffixOf(str) # << >> /\ SuffixOf(str)[1] \in {"+", "-"}

\* the offset in minutes east of UTC, 0 without one
OffsetMinutes(str) ==
    IF HasOffset(str)
    THEN (IF SuffixOf(str)[1] = "+" THEN 1 ELSE -1)
            * (60 * ToInt(SubSeq(SuffixOf(str), 2, 3))
                 + ToInt(SubSeq(SuffixOf(str), 4, 5)))
    ELSE 0

\* minutes from 0001-01-01 00:00 (day 1) to the minute the 14 digits name
LocalMinutes(str) ==
    Ordinal(Field(str, 1, 4), Field(str, 5, 6), Field(str, 7, 8)) * 1440
        + Field(str, 9, 10) * 60 + Field(str, 11, 12)

\* a well-formed timestamp: of the grammar, a real date and time of day, an
\* offset of hours up to 23 and minutes up to 59, and an instant in UTC that
\* is not before year 1 nor after year 9999
WellFormed(str) ==
    /\ InGrammar(str)
    /\ CalendarValid(str)
    /\ HasOffset(str) =>
          /\ ToInt(SubSeq(SuffixOf(str), 2, 3)) <= 23
          /\ ToInt(SubSeq(SuffixOf(str), 4, 5)) <= 59
    /\ (LocalMinutes(str) - OffsetMinutes(str)) \div 1440 \in 1..MaxOrdinal

\* C13: no call of parse_xmltv_time ends with an exception: whatever the
\* string, the call returns an instant or None.
C13_ParserNeverRaises == result.kind \in {"pending", "dt", "none"}

\* C14: for a well-formed timestamp the call returns the instant whose
\* minute is the minute the 14 digits name minus the offset (so +HHMM is
\* subtracted and -HHMM added; no offset or Z means UTC), with the seconds
\* the digits name and no sub-second part; 20240101120000 gives 2024-01-01
\* 12:00:00 UTC and 20240101120000+0200 gives 2024-01-01 10:00:00 UTC.
C14_WellFormedTimestampSemantics ==
    /\ (result # NotCalled /\ WellFormed(ts_arg)) =>
          /\ result.kind = "dt"
          /\ result.sec \in 0..(SecondsPerDay - 1)
          /\ result.day * 1440 + result.sec \div 60
                = LocalMinutes(ts_arg) - OffsetMinutes(ts_arg)
          /\ result.sec % 60 = Field(ts_arg, 13, 14)
          /\ result.us = 0
    /\ (result # NotCalled /\ ts_arg = DigitsNoon) =>
          result = Instant(Ordinal(2024, 1, 1), 12 * 3600, 0)
    /\ (result # NotCalled /\ ts_arg = DigitsNoon \o <<"+", "0", "2", "0", "0">>) =>
          result = Instant(Ordinal(2024, 1, 1), 10 * 3600, 0)

\* C14 witness: 20240101003000 +0200 was parsed, and the result is 22:30 of
\* the day before, in the year before.
C14_Witness ==
    /\ ts_arg = DigitsAfterMidnight \o <<" ", "+", "0", "2", "0", "0">>
    /\ WellFormed(ts_arg)
    /\ result = Instant(Ordinal(2023, 12, 31), 22 * 3600 + 30 * 60, 0)

\* C15: a call returns an instant only for a string of the accepted
\* grammar; for every other string, trailing characters after the 14 digits
\* that are no valid suffix included, a call that returns returns None.
C15_InstantOnlyForGrammar ==
    /\ result.kind = "dt" => InGrammar(ts_arg)
    /\ (result # NotCalled /\ ~InGrammar(ts_arg) /\ result.kind # "raise") =>
          result = None

\* C16: fetch_xml sleeps only between attempts: when k attempts have failed
\* and another is to come it has slept k times, 2, 4, ... seconds, and when
\* the third attempt has failed it has slept twice (2 s and 4 s) and raises
\* without a third sleep; so a fetch that succeeds at attempt n has slept
\* n - 1 times.
C16_SleepsOnlyBetweenAttempts ==
    pc = "fetch" =>
        /\ Len(slept) = (IF attempt <= Retries THEN attempt - 1 ELSE Retries - 1)
        /\ \A k \in 1..Len(slept) : slept[k] = 2 * k

\* the four components of the dedup key are string-equal
SameRawKey(e1, e2) ==
    /\ e1.cid = e2.cid
    /\ e1.start = e2.start
    /\ e1.stop = e2.stop
    /\ Strip(e1.title) = Strip(e2.title)

\* C17: two programmes the merge went through that pass the window, have
\* the same channel and trimmed title and denote the same instants, but
\* differ in how start or stop is written, are both in tv_root (as two
\* elements); and a window-passing programme is left out of tv_root only
\* when an earlier retained programme equals it in all four key components
\* as strings.
C17_DedupByRawStrings ==
    /\ \A o1, o2 \in OfferedProgrammes :
          ( /\ WindowPolicy(o1) /\ WindowPolicy(o2)
            /\ o1.cid = o2.cid
            /\ Strip(o1.title) = Strip(o2.title)
            /\ Parsed(o1.start) = Parsed(o2.start)
            /\ Parsed(o1.stop) = Parsed(o2.stop)
            /\ (o1.start # o2.start \/ o1.stop # o2.stop) )
          => \E e1, e2 \in RetainedProgrammes :
                e1 # e2 /\ SameRawKey(e1, o1) /\ SameRawKey(e2, o2)
    /\ \A o \in OfferedProgrammes :
          (WindowPolicy(o) /\ o \notin RetainedProgrammes) =>
              \E e \in RetainedProgrammes : Earlier(e, o) /\ SameRawKey(e, o)

\* C17 witness: the merged document that was written holds a programme
\* whose stop is 20240103120000 and one whose stop is 20240103140000 +0200,
\* the same instant, with the same channel, start and title.
C17_Witness ==
    /\ outcome = "merged"
    /\ \E e1, e2 \in RetainedProgrammes :
          /\ e1.stop = TsWinStart
          /\ e2.stop = TsWinStartOffset
          /\ Parsed(e1.stop) = Parsed(e2.stop)
          /\ e1.cid = e2.cid /\ e1.start = e2.start /\ e1.title = e2.title

\* C18: no step of a run changes the file at PREVIOUS_DIST, neither its
\* existence nor its content, whatever the outcome; and the run looks at
\* that file only after the loop over the sources, when the guard has found
\* a total failure (no source fetched, or nothing retained): a run that
\* serializes never looks at it.
C18_PreviousReadOnly ==
    /\ [][previous' = previous]_vars
    /\ [](previous_read =>
              /\ idx > NumSources
              /\ sources_ok = 0 \/ NothingRetained
              /\ pc \in {"copy", "done"}
              /\ outcome \in {"running", "fallback", "fatal"})
    /\ []((pc \in {"serialize", "write"} \/ outcome \in {"merged", "crashed"})
              => ~previous_read)

\* C18 witness: the run has copied the previous artifact over a stale
\* output and ended; the artifact is still there, with its content.
C18_Witness ==
    /\ outcome = "fallback"
    /\ previous_read
    /\ previous = File(PreviousGood)
    /\ output_before = File(StaleOutput)
    /\ output = File(PreviousGood)

\* C19: every step leaves the elements already in tv_root where they are
\* and can only add elements after them; so in tv_root the elements of an
\* earlier source come before those of a later source, and among the
\* elements of one source the channels come before the programmes, the
\* channels in document order and the programmes in document order.
C19_FirstSeenOrder ==
    /\ [][ /\ Len(tv_root') >= Len(tv_root)
           /\ SubSeq(tv_root', 1, Len(tv_root)) = tv_root ]_vars
    /\ [](\A i, j \in 1..Len(tv_root) :
              i < j =>
                  /\ tv_root[i].src <= tv_root[j].src
                  /\ tv_root[i].src = tv_root[j].src =>
                        \/ /\ tv_root[i].tag = "channel"
                           /\ tv_root[j].tag = "programme"
                        \/ /\ tv_root[i].tag = tv_root[j].tag
                           /\ tv_root[i].pos < tv_root[j].pos)

\* C19 witness: the merged document that was written holds a programme of
\* the first source and, after it, a channel of a later source.
C19_Witness ==
    /\ outcome = "merged"
    /\ Len(tv_root) >= 2
    /\ tv_root[1].tag = "programme"
    /\ tv_root[1].src = 1
    /\ tv_root[2].tag = "channel"
    /\ tv_root[2].src > 1

\* C20: a run makes at most 3 attempts for a URL, goes through the sources
\* once each in list order, touches the output only after the loop, and when
\* it has ended it is in exactly one of three outcomes: the merged document
\* written with exit code 0, the previous artifact copied with exit code 0,
\* or the fatal exit of fallback_to_previous with exit code 1 and the output
\* left alone.
C20_ThreeTerminalOutcomes ==
    /\ pc \in {"fetch", "merge"} =>
          /\ idx \in 1..NumSources
          /\ attempt \in 1..(Retries + 1)
          /\ Len(fetched) = idx - 1
    /\ pc \in {"fetch", "merge", "guard", "fallback", "serialize"} =>
          output = output_before
    /\ pc = "done" =>
          \/ /\ outcome = "merged"
             /\ exit_code = 0
             /\ output = File(Serialize(tv_root))
          \/ /\ outcome = "fallback"
             /\ exit_code = 0
             /\ output = previous
          \/ /\ outcome = "fatal"
             /\ exit_code = 1
             /\ output = output_before
             /\ ~previous.exists

====
